---- MODULE Spec2Model ----
(***************************************************************************)
(* Pre-assessment webhook receiver (src/preassessment_webhook.py).         *)
(*                                                                         *)
(* One FastAPI process holds the module-level list received_webhooks.      *)
(* Every endpoint is an `async def` coroutine without an await, so the     *)
(* event loop runs one handler body from its first statement to its        *)
(* return before it starts another one.  Requests are modelled as tasks:   *)
(* a task is dispatched (FastAPI validates a POST body against the model   *)
(* PreassessmentWebhookPayload), runs its handler statement by statement,  *)
(* and finally delivers its response.  A statement of the POST handler's   *)
(* try block may raise; the except clause answers 500.                     *)
(***************************************************************************)
EXTENDS Integers, Sequences, FiniteSets, TLC

\* ------------------------------------------------------------------ bounds
NTasks == 2          \* requests that may be in flight at once
MaxStore == 2        \* a POST is accepted only while the list is shorter
MaxMicros == 1       \* clock readings are 0..MaxMicros microseconds past Epoch

Tasks == 1..NTasks
Micros == 0..MaxMicros

VARIABLES
    received_webhooks,  \* the module-level list (line 46)
    pc,                 \* pc[t]: the statement task t executes next
    req,                \* req[t]: the request task t carries
    webhook_data,       \* local of receive_preassessment_webhook (line 78)
    count,              \* local of clear_received_webhooks (line 121)
    resp,               \* resp[t]: the response of task t, once it is done
    before,             \* history: the list when t's handler body began
    dropped,            \* history: records removed by clears minus records reported
    acked               \* history: records of the POSTs answered 200 since the last clear

vars == <<received_webhooks, pc, req, webhook_data, count, resp, before, dropped, acked>>

\* ------------------------------------------------------ JSON request bodies
Fields == {"organization_id", "preassessment_id", "regulation_id"}

Str(s) == [type |-> "string", val |-> s]
Num(s) == [type |-> "number", val |-> s]
Null == [type |-> "null", val |-> "null"]

\* The payload of the handler's docstring, shortened.
DocPayload ==
    [organization_id |-> Str("org1"),
     preassessment_id |-> Str("pa1"),
     regulation_id |-> Str("reg1")]

Without(b, f) == [g \in (DOMAIN b) \ {f} |-> b[g]]
With(b, f, v) == [g \in DOMAIN b |-> IF g = f THEN v ELSE b[g]]

\* The bodies clients send: the documented payload, and the documented
\* payload with one field dropped, emptied or of another JSON type, and
\* the body that carries organization_id alone.
Bodies ==
    {DocPayload}
    \cup {Without(DocPayload, f) : f \in Fields}
    \cup {With(DocPayload, f, v) : f \in Fields, v \in {Str(""), Num("7"), Null}}
    \cup {Without(Without(DocPayload, "preassessment_id"), "regulation_id")}

NoBody == <<>>

Requests ==
    [method : {"POST"}, path : {"/webhook/preassessment"}, body : Bodies]
    \cup [method : {"GET"}, path : {"/", "/webhook/received", "/health"}, body : {NoBody}]
    \cup [method : {"DELETE"}, path : {"/webhook/received"}, body : {NoBody}]

NoRequest == [method |-> "", path |-> "", body |-> NoBody]
NoData == [timestamp |-> ""]
NoResponse == [status_code |-> 0]

\* A validator that checks presence alone and coerces any JSON value to str.
ValidationErrors_presence_only(body) ==
    {f \in Fields : f \notin DOMAIN body}

\* PreassessmentWebhookPayload: three required fields annotated `str`.
\* The fields of a body that fail validation (missing, or not a JSON string).
ValidationErrors(body) ==
    {f \in Fields : f \notin DOMAIN body \/ body[f].type # "string"}

\* The validated model object the handler receives.
PreassessmentWebhookPayload(body) ==
    [organization_id |-> body["organization_id"].val,
     preassessment_id |-> body["preassessment_id"].val,
     regulation_id |-> body["regulation_id"].val]

\* ------------------------------------------------------------- timestamps
Epoch == "2026-02-03T12:30:04"

RECURSIVE Zeros(_)
Zeros(n) == IF n <= 0 THEN "" ELSE "0" \o Zeros(n - 1)

\* datetime.isoformat(): the microsecond part is left out when it is zero,
\* and is six zero-padded digits otherwise.
isoformat(us) ==
    IF us = 0 THEN Epoch
    ELSE Epoch \o "." \o Zeros(6 - Len(ToString(us))) \o ToString(us)

\* ----------------------------------------------------------------- scheduling
TryBlock == {"log_received", "build", "append", "log_success", "respond"}

\* Handlers that yield between statements (an await, or a thread per request).
MayRun_preemptive(t) == TRUE

\* The event loop: every handler is a coroutine without an await, so task t
\* takes a step only while no other task is between its dispatch and the
\* delivery of its response.
MayRun(t) == \A u \in Tasks \ {t} : pc[u] = "idle"

Init ==
    /\ received_webhooks = <<>>
    /\ pc = [t \in Tasks |-> "idle"]
    /\ req = [t \in Tasks |-> NoRequest]
    /\ webhook_data = [t \in Tasks |-> NoData]
    /\ count = [t \in Tasks |-> 0]
    /\ resp = [t \in Tasks |-> NoResponse]
    /\ before = [t \in Tasks |-> <<>>]
    /\ dropped = 0
    /\ acked = <<>>

\* The route table (the @app.get/@app.post/@app.delete decorators): the first
\* statement of the handler a request is routed to.
HandlerEntry(r) ==
    CASE r.method = "POST" -> "log_received"
      [] r.method = "DELETE" -> "clear_count"
      [] r.method = "GET" /\ r.path = "/webhook/received" -> "get_return"
      [] r.method = "GET" /\ r.path = "/health" -> "health_return"
      [] OTHER -> "root_return"

\* The handler parameter `payload: PreassessmentWebhookPayload` (line 57).
NeedsPayload(r) == r.method = "POST"

\* FastAPI rejects a POST whose body does not validate, before the handler
\* is called: 422 with the failing fields.
ValidationError(t, r) ==
    /\ pc[t] = "idle"
    /\ MayRun(t)
    /\ NeedsPayload(r)
    /\ ValidationErrors(r.body) # {}
    /\ pc' = [pc EXCEPT ![t] = "done"]
    /\ req' = [req EXCEPT ![t] = r]
    /\ resp' = [resp EXCEPT ![t] =
                  [status_code |-> 422, detail |-> ValidationErrors(r.body)]]
    /\ before' = [before EXCEPT ![t] = received_webhooks]
    /\ UNCHANGED <<received_webhooks, webhook_data, count, dropped, acked>>

\* FastAPI calls the handler the request is routed to.
Call(t, r) ==
    /\ pc[t] = "idle"
    /\ MayRun(t)
    /\ NeedsPayload(r) =>
          /\ ValidationErrors(r.body) = {}
          /\ Len(received_webhooks) < MaxStore
    /\ pc' = [pc EXCEPT ![t] = HandlerEntry(r)]
    /\ req' = [req EXCEPT ![t] = r]
    /\ before' = [before EXCEPT ![t] = received_webhooks]
    /\ UNCHANGED <<received_webhooks, webhook_data, count, resp, dropped, acked>>

\* ------------------------------------------- receive_preassessment_webhook
\* Lines 69-75: the log lines that open the try block.
LogReceived(t) ==
    /\ pc[t] = "log_received"
    /\ MayRun(t)
    /\ pc' = [pc EXCEPT ![t] = "build"]
    /\ UNCHANGED <<received_webhooks, req, webhook_data, count, resp, before, dropped, acked>>

\* Lines 78-83: webhook_data, stamped with a reading of the clock.
BuildWebhookData(t) ==
    /\ pc[t] = "build"
    /\ MayRun(t)
    /\ \E now \in Micros :
          webhook_data' = [webhook_data EXCEPT ![t] =
              [timestamp |-> isoformat(now)]
              @@ PreassessmentWebhookPayload(req[t].body)]
    /\ pc' = [pc EXCEPT ![t] = "append"]
    /\ UNCHANGED <<received_webhooks, req, count, resp, before, dropped, acked>>

SameIds(a, b) ==
    /\ a.organization_id = b.organization_id
    /\ a.preassessment_id = b.preassessment_id
    /\ a.regulation_id = b.regulation_id

\* An append that skips a payload whose identifiers are already stored.
AppendWebhook_dedup(t) ==
    /\ pc[t] = "append"
    /\ MayRun(t)
    /\ received_webhooks' =
          IF \E i \in 1..Len(received_webhooks) :
                SameIds(received_webhooks[i], webhook_data[t])
          THEN received_webhooks
          ELSE Append(received_webhooks, webhook_data[t])
    /\ pc' = [pc EXCEPT ![t] = "log_success"]
    /\ UNCHANGED <<req, webhook_data, count, resp, before, dropped, acked>>

\* Line 85: received_webhooks.append(webhook_data).
AppendWebhook(t) ==
    /\ pc[t] = "append"
    /\ MayRun(t)
    /\ received_webhooks' = Append(received_webhooks, webhook_data[t])
    /\ pc' = [pc EXCEPT ![t] = "log_success"]
    /\ UNCHANGED <<req, webhook_data, count, resp, before, dropped, acked>>

\* Lines 87-89: the log lines after the append.
LogSuccess(t) ==
    /\ pc[t] = "log_success"
    /\ MayRun(t)
    /\ pc' = [pc EXCEPT ![t] = "respond"]
    /\ UNCHANGED <<received_webhooks, req, webhook_data, count, resp, before, dropped, acked>>

\* Lines 91-100: the success response, stamped with another reading of the
\* clock.
RespondSuccess(t) ==
    /\ pc[t] = "respond"
    /\ MayRun(t)
    /\ \E now \in Micros :
          resp' = [resp EXCEPT ![t] =
              [status_code |-> 200,
               status |-> "success",
               message |-> "Webhook received successfully",
               received_at |-> isoformat(now),
               payload |-> PreassessmentWebhookPayload(req[t].body)]]
    /\ acked' = Append(acked, webhook_data[t])
    /\ pc' = [pc EXCEPT ![t] = "done"]
    /\ UNCHANGED <<received_webhooks, req, webhook_data, count, before, dropped>>

\* A statement of the try block (lines 69-100) raises instead of completing;
\* control passes to the except clause.
Raise(t) ==
    /\ pc[t] \in TryBlock
    /\ MayRun(t)
    /\ pc' = [pc EXCEPT ![t] = "except"]
    /\ UNCHANGED <<received_webhooks, req, webhook_data, count, resp, before, dropped, acked>>

\* Lines 102-107: log the error and raise HTTPException(500).
HandleException(t) ==
    /\ pc[t] = "except"
    /\ MayRun(t)
    /\ resp' = [resp EXCEPT ![t] =
                  [status_code |-> 500, detail |-> "Failed to process webhook"]]
    /\ pc' = [pc EXCEPT ![t] = "done"]
    /\ UNCHANGED <<received_webhooks, req, webhook_data, count, before, dropped, acked>>

\* ----------------------------------------------------- get_received_webhooks
get_received_webhooks(store) ==
    [status_code |-> 200, total_received |-> Len(store), webhooks |-> store]

\* A read that hands the list over and starts a new one.
GetReceivedReturn_drains(t) ==
    /\ pc[t] = "get_return"
    /\ MayRun(t)
    /\ resp' = [resp EXCEPT ![t] = get_received_webhooks(received_webhooks)]
    /\ received_webhooks' = <<>>
    /\ pc' = [pc EXCEPT ![t] = "done"]
    /\ UNCHANGED <<req, webhook_data, count, before, dropped, acked>>

GetReceivedReturn(t) ==
    /\ pc[t] = "get_return"
    /\ MayRun(t)
    /\ resp' = [resp EXCEPT ![t] = get_received_webhooks(received_webhooks)]
    /\ pc' = [pc EXCEPT ![t] = "done"]
    /\ UNCHANGED <<received_webhooks, req, webhook_data, count, before, dropped, acked>>

\* --------------------------------------------------- clear_received_webhooks
\* The length read after the list was reset (lines 121 and 122 swapped).
ClearCount_after_reset(t) ==
    /\ pc[t] = "clear_count"
    /\ MayRun(t)
    /\ count' = [count EXCEPT ![t] = 0]
    /\ pc' = [pc EXCEPT ![t] = "clear_reset"]
    /\ UNCHANGED <<received_webhooks, req, webhook_data, resp, before, dropped, acked>>

\* Line 121: count = len(received_webhooks).
ClearCount(t) ==
    /\ pc[t] = "clear_count"
    /\ MayRun(t)
    /\ count' = [count EXCEPT ![t] = Len(received_webhooks)]
    /\ pc' = [pc EXCEPT ![t] = "clear_reset"]
    /\ UNCHANGED <<received_webhooks, req, webhook_data, resp, before, dropped, acked>>

\* Line 122: received_webhooks = [].
ClearReset(t) ==
    /\ pc[t] = "clear_reset"
    /\ MayRun(t)
    /\ received_webhooks' = <<>>
    /\ dropped' = dropped + Len(received_webhooks) - count[t]
    /\ acked' = <<>>
    /\ pc' = [pc EXCEPT ![t] = "clear_return"]
    /\ UNCHANGED <<req, webhook_data, count, resp, before>>

ClearedMessage(n) == "Cleared " \o ToString(n) \o " webhooks"

\* Lines 124-127.
ClearReturn(t) ==
    /\ pc[t] = "clear_return"
    /\ MayRun(t)
    /\ resp' = [resp EXCEPT ![t] =
                  [status_code |-> 200,
                   status |-> "success",
                   message |-> ClearedMessage(count[t])]]
    /\ pc' = [pc EXCEPT ![t] = "done"]
    /\ UNCHANGED <<received_webhooks, req, webhook_data, count, before, dropped, acked>>

\* -------------------------------------------------------------- health_check
\* A count taken once, when the module was loaded.
health_check_stale(store) ==
    [status_code |-> 200, status |-> "healthy", webhooks_received |-> 0]

health_check(store) ==
    [status_code |-> 200, status |-> "healthy", webhooks_received |-> Len(store)]

HealthReturn(t) ==
    /\ pc[t] = "health_return"
    /\ MayRun(t)
    /\ resp' = [resp EXCEPT ![t] = health_check(received_webhooks)]
    /\ pc' = [pc EXCEPT ![t] = "done"]
    /\ UNCHANGED <<received_webhooks, req, webhook_data, count, before, dropped, acked>>

\* ---------------------------------------------------------------------- root
root ==
    [status_code |-> 200,
     message |-> "Pre-assessment Webhook Receiver",
     version |-> "1.0.0",
     endpoint |-> "POST /webhook/preassessment"]

RootReturn(t) ==
    /\ pc[t] = "root_return"
    /\ MayRun(t)
    /\ resp' = [resp EXCEPT ![t] = root]
    /\ pc' = [pc EXCEPT ![t] = "done"]
    /\ UNCHANGED <<received_webhooks, req, webhook_data, count, before, dropped, acked>>

\* The response is sent; the task's frame is gone.
Deliver(t) ==
    /\ pc[t] = "done"
    /\ pc' = [pc EXCEPT ![t] = "idle"]
    /\ req' = [req EXCEPT ![t] = NoRequest]
    /\ webhook_data' = [webhook_data EXCEPT ![t] = NoData]
    /\ count' = [count EXCEPT ![t] = 0]
    /\ resp' = [resp EXCEPT ![t] = NoResponse]
    /\ before' = [before EXCEPT ![t] = <<>>]
    /\ UNCHANGED <<received_webhooks, dropped, acked>>

Next ==
    \E t \in Tasks :
        \/ \E r \in Requests : ValidationError(t, r)
        \/ \E r \in Requests : Call(t, r)
        \/ LogReceived(t)
        \/ BuildWebhookData(t)
        \/ AppendWebhook(t)
        \/ LogSuccess(t)
        \/ RespondSuccess(t)
        \/ Raise(t)
        \/ HandleException(t)
        \/ GetReceivedReturn(t)
        \/ ClearCount(t)
        \/ ClearReset(t)
        \/ ClearReturn(t)
        \/ HealthReturn(t)
        \/ RootReturn(t)
        \/ Deliver(t)

Spec == Init /\ [][Next]_vars

\* ====================================================================
\* Properties
\* ====================================================================
Done(t) == pc[t] = "done"
IsIngest(r) == r.method = "POST" /\ r.path = "/webhook/preassessment"
IsList(r) == r.method = "GET" /\ r.path = "/webhook/received"
IsClear(r) == r.method = "DELETE" /\ r.path = "/webhook/received"
IsHealth(r) == r.method = "GET" /\ r.path = "/health"
Succeeded(t) == Done(t) /\ IsIngest(req[t]) /\ resp[t].status_code = 200
Timestamps == {isoformat(us) : us \in Micros}

\* C1: a POST answered 200 has made the list exactly one record longer, and
\* the last element GET /webhook/received returns carries the request's three
\* identifiers and a server-assigned timestamp, whether or not the same
\* identifiers were stored before.
C1_PostAppendsOne ==
    \A t \in Tasks :
        Succeeded(t) =>
            LET listing == get_received_webhooks(received_webhooks)
                last == listing.webhooks[Len(listing.webhooks)]
            IN  /\ Len(received_webhooks) = Len(before[t]) + 1
                /\ listing.total_received = Len(before[t]) + 1
                /\ \A f \in Fields : last[f] = req[t].body[f].val
                /\ last.timestamp \in Timestamps

\* A POST answered 200 while a record with the same identifiers was stored.
C1_Witness ==
    \E t \in Tasks :
        /\ Succeeded(t)
        /\ \E i \in 1..Len(before[t]) :
              \A f \in Fields : before[t][i][f] = req[t].body[f].val

MissingOrNotString(body) ==
    \E f \in Fields : f \notin DOMAIN body \/ body[f].type # "string"

\* C2: a POST whose body lacks one of the three fields, or has one that is
\* not a string, is answered 422 or 400 and the list is as it was.
C2_InvalidBodyRejected ==
    \A t \in Tasks :
        Done(t) /\ IsIngest(req[t]) /\ MissingOrNotString(req[t].body) =>
            /\ resp[t].status_code \in {400, 422}
            /\ received_webhooks = before[t]

\* A wrong-typed field rejected while the list holds records.
C2_Witness ==
    \E t \in Tasks :
        /\ Done(t) /\ IsIngest(req[t])
        /\ \E f \in Fields : f \in DOMAIN req[t].body /\ req[t].body[f].type = "number"
        /\ resp[t].status_code = 422
        /\ Len(received_webhooks) > 0

\* C3: DELETE /webhook/received leaves the list empty and answers success
\* with "Cleared N webhooks", N the length of the list when the call began; a
\* GET /webhook/received then reports total_received 0.
C3_ClearEmptiesAndCounts ==
    \A t \in Tasks :
        Done(t) /\ IsClear(req[t]) =>
            /\ received_webhooks = <<>>
            /\ resp[t].status_code = 200
            /\ resp[t].status = "success"
            /\ resp[t].message = "Cleared " \o ToString(Len(before[t])) \o " webhooks"
            /\ get_received_webhooks(received_webhooks).total_received = 0

\* A clear of a list of two records has answered.
C3_Witness ==
    \E t \in Tasks :
        /\ Done(t) /\ IsClear(req[t])
        /\ Len(before[t]) = 2
        /\ resp[t].message = "Cleared 2 webhooks"

\* C4: when a statement of the ingestion handler's try block fails, the
\* request is answered 500 and the list holds no record of that request.
C4_FailureStoresNothing ==
    \A t \in Tasks :
        /\ pc[t] = "except" => received_webhooks = before[t]
        /\ Done(t) /\ IsIngest(req[t]) /\ resp[t].status_code = 500 =>
              received_webhooks = before[t]

\* C5: every stored record has the three identifiers, each a non-empty string.
C5_IdentifiersNonEmpty ==
    \A i \in 1..Len(received_webhooks) :
        \A f \in Fields :
            /\ f \in DOMAIN received_webhooks[i]
            /\ received_webhooks[i][f] # ""

\* C6: what GET /health reports as webhooks_received equals what
\* GET /webhook/received reports as total_received, and both equal the length
\* of the webhooks list, when the list does not change between the reads.
C6_HealthMatchesListing ==
    LET listing == get_received_webhooks(received_webhooks)
        health == health_check(received_webhooks)
    IN  /\ health.webhooks_received = listing.total_received
        /\ listing.total_received = Len(listing.webhooks)
        /\ \A t \in Tasks :
              /\ Done(t) /\ IsHealth(req[t]) =>
                    resp[t].webhooks_received = listing.total_received
              /\ Done(t) /\ IsList(req[t]) =>
                    /\ resp[t].total_received = health.webhooks_received
                    /\ resp[t].total_received = Len(resp[t].webhooks)

\* GET /health has answered while the list holds records.
C6_Witness ==
    \E t \in Tasks :
        /\ Done(t) /\ IsHealth(req[t])
        /\ resp[t].webhooks_received = 2

\* C7: the count a clear reports is the number of records it removes: at the
\* reset the length read at line 121 is still the length of the list, no
\* record is removed unreported, and every record of a POST answered 200
\* since the last clear is in the list.
C7_ClearIsAtomic ==
    /\ dropped = 0
    /\ \A t \in Tasks : pc[t] = "clear_reset" => count[t] = Len(received_webhooks)
    /\ \A i \in 1..Len(acked) :
          \E j \in 1..Len(received_webhooks) : received_webhooks[j] = acked[i]

\* A clear that read a length of two has reset the list.
C7_Witness ==
    \E t \in Tasks :
        /\ pc[t] = "clear_return"
        /\ count[t] = 2
        /\ received_webhooks = <<>>

\* C8: GET /webhook/received, GET /health and GET / leave the list as it was.
C8_ReadsLeaveStore ==
    \A t \in Tasks :
        Done(t) /\ req[t].method = "GET" => received_webhooks = before[t]

\* GET /webhook/received has answered with two records.
C8_Witness ==
    \E t \in Tasks :
        /\ Done(t) /\ IsList(req[t])
        /\ resp[t].total_received = 2
        /\ received_webhooks = before[t]

\* C9: the list is append-only except for a full clear, so that between
\* requests it holds exactly the records of the POSTs answered 200 since the
\* last clear, in insertion order.
C9_HoldsExactlyAcked ==
    (\A t \in Tasks : pc[t] = "idle") => received_webhooks = acked

\* The step half of C9: a step leaves the list unchanged, appends one record
\* or empties it.
C9_StepShape ==
    [][\/ received_webhooks' = received_webhooks
       \/ \E t \in Tasks : received_webhooks' = Append(received_webhooks, webhook_data[t])
       \/ received_webhooks' = <<>>]_vars

\* C10: the received_at of a 200 response is the timestamp of the record that
\* request stored, and the response's payload echoes the stored identifiers.
C10_ReceivedAtIsStoredTimestamp ==
    \A t \in Tasks :
        Succeeded(t) =>
            /\ resp[t].received_at = webhook_data[t].timestamp
            /\ \A f \in Fields : resp[t].payload[f] = webhook_data[t][f]

====
